---- MODULE Spec2Model ----
(***************************************************************************)
(* A model of the showcase key/value store (enhanced_showcase.rs) and of   *)
(* process_data (enhanced_showcase.rs), and of the handler / dispatcher    *)
(* (snippet.rs).                                                           *)
(*                                                                         *)
(* Strings are sequences of one-character strings, so that formatting a    *)
(* snapshot line and parsing it back are computed character by character.  *)
(* A HashMap<String, String> is a function from its key set to values      *)
(* together with its iteration order (a sequence of its keys).             *)
(***************************************************************************)
EXTENDS Integers, Sequences, FiniteSets, TLC

VARIABLES
    store,      \* MemoryDatabase.store: the entries of the HashMap
    order,      \* the iteration order of MemoryDatabase.store
    pre,        \* history variable: store before the most recent call
    history,    \* history variable: the calls so far and what each returned
    file,       \* the file save_to_file writes and load_from_file reads
    loaded,     \* the entries of the database load_from_file returned last
    call,       \* the dispatcher function called last
    pc,         \* where that call is: not made ("idle"), in its loop, returned
    handler,    \* the handler it was given
    configs,    \* the descriptors it was given
    operations, \* run_with_store: the operation paired with each descriptor
    idx,        \* the number of descriptors the loop has consumed
    results,    \* the HashMap<String, Status> the loop builds and returns
    outcomes,   \* history variable: what each iteration of the loop did
    atCall      \* history variable: store when the call was made

fileVars == <<file, loaded>>
dispatchVars == <<call, pc, handler, configs, operations, idx, results, outcomes, atCall>>

\* ------------------------------------------------------------ bounds
\* the number of calls made in a run
MaxOps == 4
\* the number of descriptors given to a dispatcher call
MaxItems == 2

\* ------------------------------------------------------------ strings
COLON == ":"
NL == "\n"
CR == "\r"

EmptyStr == <<>>

\* keys of the store runs: the empty string is one
StoreKeys == {EmptyStr, <<"a">>}

\* keys of the persistence runs: with and without ':' and line terminators
FileKeys == {EmptyStr, <<"a">>, <<CR>>, <<COLON>>, <<NL>>}

AllKeys == StoreKeys \cup FileKeys

\* ------------------------------------------------------------ Option / Result
None == [some |-> FALSE]
Some(v) == [some |-> TRUE, val |-> v]

Ok(m) == [ok |-> TRUE, msg |-> m]
Err(m) == [ok |-> FALSE, msg |-> m]

\* ------------------------------------------------------------ HashMap
EmptyMap == [x \in {} |-> EmptyStr]

\* HashMap::insert: the entry for k is (over)written, the others stay
MapInsert(m, k, v) == [x \in DOMAIN m \cup {k} |-> IF x = k THEN v ELSE m[x]]

\* HashMap::remove
MapRemove(m, k) == [x \in DOMAIN m \ {k} |-> m[x]]

\* HashMap::get
MapGet(m, k) == IF k \in DOMAIN m THEN Some(m[k]) ELSE None

\* HashMap::contains_key
MapContainsKey(m, k) == k \in DOMAIN m

\* the sequences that list every element of S once
RECURSIVE Perms(_)
Perms(S) ==
    IF S = {} THEN {<<>>}
    ELSE UNION {{<<x>> \o p : p \in Perms(S \ {x})} : x \in S}

\* The iteration orders a HashMap may have after a call that took its
\* entries from m to n, o being the order before: a new key lands anywhere
\* and may rehash the table; a removal or an overwrite moves nothing.
NextOrders(o, m, n) ==
    IF DOMAIN n = DOMAIN m THEN {o}
    ELSE IF DOMAIN n \subseteq DOMAIN m THEN {SelectSeq(o, LAMBDA x : x \in DOMAIN n)}
    ELSE Perms(DOMAIN n)

\* ------------------------------------------------------------ Database
\* mutant of DbInsert: the empty key is special-cased and never stored
DbInsertSkipsEmptyKey(m, key, value) ==
    IF key = EmptyStr THEN m ELSE MapInsert(m, key, value)

\* mutant of DbInsert: a value is appended to the one already there
DbInsertAppends(m, key, value) ==
    MapInsert(m, key, IF key \in DOMAIN m THEN m[key] \o value ELSE value)

\* Database::insert for MemoryDatabase
DbInsert(m, key, value) == MapInsert(m, key, value)

\* Database::retrieve for MemoryDatabase
DbRetrieve(m, key) == MapGet(m, key)

\* ------------------------------------------------------------ DbOperation
InsertOp(k, v) == [kind |-> "Insert", key |-> k, value |-> v]
RetrieveOp(k) == [kind |-> "Retrieve", key |-> k, value |-> EmptyStr]
DeleteOp(k) == [kind |-> "Delete", key |-> k, value |-> EmptyStr]
UpdateOp(k, v) == [kind |-> "Update", key |-> k, value |-> v]

\* The arms of DbOperation::execute: the store after the arm and the
\* Result it returns.  A message is kept as the parts format! joins.
ExecuteInsert(m, key, value) ==
    [db |-> DbInsert(m, key, value), res |-> Ok(<<"Inserted: ", key, " = ", value>>)]

\* mutant of ExecuteRetrieve: the read takes the entry out of the store
ExecuteRetrieveTakes(m, key) ==
    LET got == DbRetrieve(m, key)
    IN  IF got.some
        THEN [db |-> MapRemove(m, key), res |-> Ok(<<"Retrieved: ", key, " = ", got.val>>)]
        ELSE [db |-> m, res |-> Err(<<"Key not found: ", key>>)]

ExecuteRetrieve(m, key) ==
    LET got == DbRetrieve(m, key)
    IN  IF got.some
        THEN [db |-> m, res |-> Ok(<<"Retrieved: ", key, " = ", got.val>>)]
        ELSE [db |-> m, res |-> Err(<<"Key not found: ", key>>)]

\* mutant of ExecuteDelete: the presence check is dropped
ExecuteDeleteUnchecked(m, key) ==
    [db |-> MapRemove(m, key), res |-> Ok(<<"Deleted: ", key>>)]

\* mutant of ExecuteDelete: success is reported but the entry stays
ExecuteDeleteKeeps(m, key) ==
    IF MapContainsKey(m, key)
    THEN [db |-> m, res |-> Ok(<<"Deleted: ", key>>)]
    ELSE [db |-> m, res |-> Err(<<"Key not found: ", key>>)]

ExecuteDelete(m, key) ==
    IF MapContainsKey(m, key)
    THEN [db |-> MapRemove(m, key), res |-> Ok(<<"Deleted: ", key>>)]
    ELSE [db |-> m, res |-> Err(<<"Key not found: ", key>>)]

\* mutant of ExecuteUpdate: an upsert, as Insert is
ExecuteUpdateUpserts(m, key, value) ==
    [db |-> MapInsert(m, key, value), res |-> Ok(<<"Updated: ", key, " = ", value>>)]

ExecuteUpdate(m, key, value) ==
    IF MapContainsKey(m, key)
    THEN [db |-> MapInsert(m, key, value), res |-> Ok(<<"Updated: ", key, " = ", value>>)]
    ELSE [db |-> m, res |-> Err(<<"Key not found: ", key>>)]

\* DbOperation::execute
Execute(op, m) ==
    CASE op.kind = "Insert" -> ExecuteInsert(m, op.key, op.value)
      [] op.kind = "Retrieve" -> ExecuteRetrieve(m, op.key)
      [] op.kind = "Delete" -> ExecuteDelete(m, op.key)
      [] op.kind = "Update" -> ExecuteUpdate(m, op.key, op.value)

\* ------------------------------------------------------------ process_data
\* ServerConfig::default, with the timeout given
ServerConfig(timeout_ms) ==
    [host |-> "127.0.0.1", port |-> 8080, timeout_ms |-> timeout_ms, max_connections |-> 100]

\* a &str: process_data reads its length in bytes and hands the text back
Input(text, len) == [text |-> text, len |-> len]

MAX_SIZE == 1024 * 1024

\* mutant of ProcessData: an input of MAX_SIZE bytes is refused too
ProcessDataOffByOne(input, config) ==
    IF input.len >= MAX_SIZE
    THEN [res |-> Err(<<"Input exceeds max size: ", MAX_SIZE>>), config |-> config]
    ELSE IF config.timeout_ms = 0
    THEN [res |-> Err(<<"Invalid timeout">>), config |-> config]
    ELSE [res |-> Ok(input), config |-> config]

\* process_data(input, &config): the Result, and the config as the call
\* leaves it (it is borrowed, &ServerConfig)
ProcessData(input, config) ==
    IF input.len > MAX_SIZE
    THEN [res |-> Err(<<"Input exceeds max size: ", MAX_SIZE>>), config |-> config]
    ELSE IF config.timeout_ms = 0
    THEN [res |-> Err(<<"Invalid timeout">>), config |-> config]
    ELSE [res |-> Ok(input), config |-> config]

\* ------------------------------------------------------------ Config, Handler
\* Config::new
Config(name, timeout) == [name |-> name, timeout |-> timeout]

\* mutant of Validate: the timeout is not looked at
ValidateNameOnly(config) ==
    IF Len(config.name) = 0 THEN Err(<<"Name cannot be empty">>) ELSE Ok(<<>>)

\* Config::validate
Validate(config) ==
    IF Len(config.name) = 0 THEN Err(<<"Name cannot be empty">>)
    ELSE IF config.timeout = 0 THEN Err(<<"Timeout must be greater than 0">>)
    ELSE Ok(<<>>)

\* DefaultHandler::handle: the name is printed and the descriptor validated.
\* handle borrows the descriptor (&Config): "config" is the descriptor as the
\* call leaves it.
DefaultHandle(config) == [res |-> Validate(config), config |-> config]

\* a handler that fails every descriptor
RejectAllHandle(config) == [res |-> Err(<<"rejected">>), config |-> config]

Handlers == {"DefaultHandler", "RejectAll"}

\* Handler::handle, by the handler given
Handle(h, config) ==
    IF h = "DefaultHandler" THEN DefaultHandle(config) ELSE RejectAllHandle(config)

\* ------------------------------------------------------------ Status
Active == [tag |-> "Active"]
Inactive == [tag |-> "Inactive"]
Pending(id) == [tag |-> "Pending", id |-> id]

EmptyResults == [x \in {} |-> Inactive]

\* mutant of Record: the first status of a name stays
RecordKeepsFirst(m, name, ok) ==
    IF name \in DOMAIN m THEN m ELSE MapInsert(m, name, IF ok THEN Active ELSE Inactive)

\* mutant of Record: a failure is not recorded
RecordDropsFailure(m, name, ok) ==
    IF ok THEN MapInsert(m, name, Active) ELSE m

\* the body of the loop of process_items: results.insert(name, status)
Record(m, name, ok) == MapInsert(m, name, IF ok THEN Active ELSE Inactive)

\* ------------------------------------------------------------ persistence
\* writeln!(file, "{}:{}", key, value)
FormatLine(key, value) == key \o <<COLON>> \o value \o <<NL>>

\* mutant of WriteEntries: an entry with an empty value is not written
RECURSIVE WriteEntriesSkipsEmpty(_, _)
WriteEntriesSkipsEmpty(m, o) ==
    IF o = <<>> THEN <<>>
    ELSE (IF m[Head(o)] = EmptyStr THEN <<>> ELSE FormatLine(Head(o), m[Head(o)]))
             \o WriteEntriesSkipsEmpty(m, Tail(o))

\* the loop of save_to_file over the entries in iteration order o
RECURSIVE WriteEntries(_, _)
WriteEntries(m, o) ==
    IF o = <<>> THEN <<>>
    ELSE FormatLine(Head(o), m[Head(o)]) \o WriteEntries(m, Tail(o))

\* the first position of c in s, 0 when there is none
IndexOf(s, c) ==
    IF \E i \in 1..Len(s) : s[i] = c
    THEN CHOOSE i \in 1..Len(s) : s[i] = c /\ \A j \in 1..(i - 1) : s[j] # c
    ELSE 0

\* the last position of c in s, 0 when there is none
LastIndexOf(s, c) ==
    IF \E i \in 1..Len(s) : s[i] = c
    THEN CHOOSE i \in 1..Len(s) : s[i] = c /\ \A j \in (i + 1)..Len(s) : s[j] # c
    ELSE 0

\* mutant of SplitOnce: the split is at the last c (str::rsplit_once)
SplitOnceLast(s, c) ==
    LET i == LastIndexOf(s, c)
    IN  IF i = 0 THEN None
        ELSE Some(<<SubSeq(s, 1, i - 1), SubSeq(s, i + 1, Len(s))>>)

\* str::split_once: the text before and after the first c, None without a c
SplitOnce(s, c) ==
    LET i == IndexOf(s, c)
    IN  IF i = 0 THEN None
        ELSE Some(<<SubSeq(s, 1, i - 1), SubSeq(s, i + 1, Len(s))>>)

\* str::split_inclusive: the pieces of s, each up to and with its c; the
\* last piece is what follows the last c, when anything does
RECURSIVE SplitInclusive(_, _)
SplitInclusive(s, c) ==
    LET i == IndexOf(s, c)
    IN  IF s = <<>> THEN <<>>
        ELSE IF i = 0 THEN <<s>>
        ELSE <<SubSeq(s, 1, i)>> \o SplitInclusive(SubSeq(s, i + 1, Len(s)), c)

\* str::strip_suffix for a one-character suffix
StripSuffix(s, c) ==
    IF Len(s) > 0 /\ s[Len(s)] = c THEN Some(SubSeq(s, 1, Len(s) - 1)) ELSE None

\* what str::lines makes of one piece: the "\n" goes, and with it a "\r"
\* right before it
StripLineEnding(piece) ==
    LET a == StripSuffix(piece, NL)
    IN  IF ~a.some THEN piece
        ELSE LET b == StripSuffix(a.val, CR)
             IN  IF b.some THEN b.val ELSE a.val

\* str::lines
Lines(s) ==
    LET pieces == SplitInclusive(s, NL)
    IN  [i \in 1..Len(pieces) |-> StripLineEnding(pieces[i])]

\* mutant of LoadLines: a line without a ':' ends the loading
RECURSIVE LoadLinesStops(_, _)
LoadLinesStops(m, ls) ==
    IF ls = <<>> THEN m
    ELSE LET kv == SplitOnce(Head(ls), COLON)
         IN  IF kv.some THEN LoadLinesStops(MapInsert(m, kv.val[1], kv.val[2]), Tail(ls))
             ELSE m

\* the loop of load_from_file: each line with a ':' is inserted, in order
RECURSIVE LoadLines(_, _)
LoadLines(m, ls) ==
    IF ls = <<>> THEN m
    ELSE LET kv == SplitOnce(Head(ls), COLON)
         IN  LoadLines(IF kv.some THEN MapInsert(m, kv.val[1], kv.val[2]) ELSE m, Tail(ls))

\* the entries load_from_file builds from the contents of a file
LoadContents(contents) == LoadLines(EmptyMap, Lines(contents))

NoFile == [exists |-> FALSE]
NotLoaded == [done |-> FALSE]

\* ------------------------------------------------------------ history
NoCall == [call |-> "none", kind |-> "none", key |-> EmptyStr, value |-> EmptyStr,
           res |-> Ok(<<>>)]

Call(c, op, r) == [call |-> c, kind |-> op.kind, key |-> op.key, value |-> op.value,
                   res |-> r]

NoOp == [kind |-> "none", key |-> EmptyStr, value |-> EmptyStr]

\* the most recent call
last == IF history = <<>> THEN NoCall ELSE history[Len(history)]

\* ------------------------------------------------------------ initial state
\* MemoryDatabase::new, no file written, nothing loaded
Init ==
    /\ store = EmptyMap
    /\ order = <<>>
    /\ pre = EmptyMap
    /\ history = <<>>
    /\ file = NoFile
    /\ loaded = NotLoaded
    /\ call = "none"
    /\ pc = "idle"
    /\ handler = "DefaultHandler"
    /\ configs = <<>>
    /\ operations = <<>>
    /\ idx = 0
    /\ results = EmptyResults
    /\ outcomes = <<>>
    /\ atCall = EmptyMap

\* ------------------------------------------------------------ store actions
\* The program is single-threaded: no call is made while a dispatcher call
\* is in its loop (pc = "loop").
\* op.execute(&mut db)
DoExecute(op) ==
    /\ pc # "loop"
    /\ Len(history) < MaxOps
    /\ LET r == Execute(op, store)
       IN  /\ store' = r.db
           /\ order' \in NextOrders(order, store, r.db)
           /\ pre' = store
           /\ history' = Append(history, Call("execute", op, r.res))
    /\ UNCHANGED <<fileVars, dispatchVars>>

\* db.insert(key, value)
DoInsert(key, value) ==
    /\ pc # "loop"
    /\ Len(history) < MaxOps
    /\ LET n == DbInsert(store, key, value)
       IN  /\ store' = n
           /\ order' \in NextOrders(order, store, n)
           /\ pre' = store
           /\ history' = Append(history, Call("insert", InsertOp(key, value), Ok(<<>>)))
    /\ UNCHANGED <<fileVars, dispatchVars>>

\* db.retrieve(key): &self, the store is only read
DoRetrieve(key) ==
    /\ pc # "loop"
    /\ Len(history) < MaxOps
    /\ pre' = store
    /\ history' = Append(history, Call("retrieve", RetrieveOp(key), DbRetrieve(store, key)))
    /\ UNCHANGED <<store, order>>
    /\ UNCHANGED <<fileVars, dispatchVars>>

\* the operations of the store runs: present and absent keys, the empty
\* string as a key and as a value
StoreOps ==
    {InsertOp(EmptyStr, EmptyStr), InsertOp(<<"a">>, <<"x">>), InsertOp(<<"a">>, EmptyStr),
     UpdateOp(EmptyStr, <<"x">>), UpdateOp(<<"a">>, EmptyStr),
     DeleteOp(EmptyStr), DeleteOp(<<"a">>),
     RetrieveOp(EmptyStr), RetrieveOp(<<"a">>)}

\* the arguments of the direct inserts of the store runs
StoreInserts == {<<EmptyStr, EmptyStr>>, <<EmptyStr, <<"x">>>>, <<<<"a">>, <<"x">>>>}

ExecuteAny == \E op \in StoreOps : DoExecute(op)
InsertAny == \E kv \in StoreInserts : DoInsert(kv[1], kv[2])
RetrieveAny == \E k \in StoreKeys : DoRetrieve(k)

NextStore == ExecuteAny \/ InsertAny \/ RetrieveAny

\* ------------------------------------------------------------ persistence actions
\* db.save_to_file(path): the file is created (or truncated) and one line
\* per entry is written, in the HashMap's iteration order.  Faults of the
\* file system are not modelled.  The fields "of" and "saved" are history
\* fields: the entries the store had when the file was written, and that
\* save_to_file wrote it.
SaveToFile ==
    /\ pc # "loop"
    /\ Len(history) < MaxOps
    /\ file' = [exists |-> TRUE, contents |-> WriteEntries(store, order), of |-> store,
                saved |-> TRUE]
    /\ pre' = store
    /\ history' = Append(history, Call("save", NoOp, Ok(<<>>)))
    /\ UNCHANGED <<store, order, loaded, dispatchVars>>

\* MemoryDatabase::load_from_file(path), an associated function that takes no
\* database: Err when the file cannot be opened, else a new database built
\* from the lines of the file.  "of", "saved" and "contents" are history
\* fields carried over from the file.
LoadFromFile ==
    /\ pc # "loop"
    /\ Len(history) < MaxOps
    /\ loaded' = IF file.exists
                 THEN [done |-> TRUE, ok |-> TRUE, store |-> LoadContents(file.contents),
                       of |-> file.of, saved |-> file.saved, contents |-> file.contents]
                 ELSE [done |-> TRUE, ok |-> FALSE]
    /\ pre' = store
    /\ history' = Append(history, Call("load", NoOp, IF file.exists THEN Ok(<<>>) ELSE Err(<<>>)))
    /\ UNCHANGED <<store, order, file, dispatchVars>>

\* the operations of the persistence runs: every kind of key and value
FileOps ==
    {InsertOp(EmptyStr, EmptyStr), InsertOp(<<"a">>, <<"x">>),
     InsertOp(<<CR>>, <<CR, COLON>>),
     InsertOp(<<COLON>>, <<"x">>), InsertOp(<<NL>>, <<"x">>),
     InsertOp(<<"a">>, <<NL>>), InsertOp(<<"a">>, <<CR>>),
     DeleteOp(<<"a">>)}

ExecuteFileOp == \E op \in FileOps : DoExecute(op)

NextPersist == ExecuteFileOp \/ SaveToFile \/ LoadFromFile

\* ------------------------------------------------------------ process_data calls
\* the inputs: of main, empty, of exactly MAX_SIZE bytes, of one byte more
DataInputs ==
    {Input("Hello, Rust!", 12), Input("", 0), Input("max", MAX_SIZE),
     Input("over", MAX_SIZE + 1)}

\* the default config, and one without a timeout
DataConfigs == {ServerConfig(5000), ServerConfig(0)}

\* process_data(input, &config); the store is not involved
DoProcessData(input, config) ==
    /\ pc # "loop"
    /\ Len(history) < MaxOps
    /\ LET r == ProcessData(input, config)
       IN  history' = Append(history, [call |-> "process_data", kind |-> "none",
                                       key |-> EmptyStr, value |-> EmptyStr, res |-> r.res,
                                       input |-> input, config |-> config, after |-> r.config])
    /\ pre' = store
    /\ UNCHANGED <<store, order, fileVars, dispatchVars>>

ProcessDataAny == \E input \in DataInputs, config \in DataConfigs : DoProcessData(input, config)

NextData == ProcessDataAny

\* ------------------------------------------------------------ files found on disk
\* "a:x", "b", "a:y:z": a key on two lines, a line without ':' between them,
\* a value with ':' in it
FileDuplicate == <<"a", COLON, "x", NL, "b", NL, "a", COLON, "y", COLON, "z", NL>>

\* ":v", "", "b" with no newline after it: the empty key, an empty line, a
\* last line without ':'
FileTrailing == <<COLON, "v", NL, NL, "b">>

\* "a:" ended by "\r\n", then "b:x" with no newline after it
FileCrLf == <<"a", COLON, CR, NL, "b", COLON, "x">>

\* "::", "a:x", ":": the empty key with the value ":" and then with the empty
\* value
FileColons == <<COLON, COLON, NL, "a", COLON, "x", NL, COLON, NL>>

\* "b": no line with a ':'
FileNoEntry == <<"b", NL>>

FileContents == {<<>>, FileDuplicate, FileTrailing, FileCrLf, FileColons, FileNoEntry}

\* the file at the path was put there by something else than save_to_file
WriteFile(contents) ==
    /\ file' = [exists |-> TRUE, contents |-> contents, of |-> EmptyMap, saved |-> FALSE]
    /\ UNCHANGED <<store, order, pre, history, loaded, dispatchVars>>

WriteFileAny == \E contents \in FileContents : WriteFile(contents)

NextLoad == WriteFileAny \/ LoadFromFile

\* ------------------------------------------------------------ process_items
\* the descriptors of the dispatcher runs: valid, without a name, without a
\* timeout, without either
Descriptors ==
    {Config(<<"p">>, 30), Config(<<"s">>, 60), Config(<<"p">>, 0), Config(EmptyStr, 30),
     Config(EmptyStr, 0)}

RECURSIVE SeqsUpTo(_, _)
SeqsUpTo(S, n) ==
    IF n = 0 THEN {<<>>}
    ELSE SeqsUpTo(S, n - 1) \cup {Append(q, x) : q \in {r \in SeqsUpTo(S, n - 1) : Len(r) = n - 1}, x \in S}

ProcessInputs == SeqsUpTo(Descriptors, MaxItems)

\* process_items(&handler, configs): results starts empty
ProcessItemsCall(h, cs) ==
    /\ pc # "loop"
    /\ call' = "process_items"
    /\ pc' = "loop"
    /\ handler' = h
    /\ configs' = cs
    /\ operations' = <<>>
    /\ idx' = 0
    /\ results' = EmptyResults
    /\ outcomes' = <<>>
    /\ atCall' = store
    /\ UNCHANGED <<store, order, pre, history, fileVars>>

\* one turn of "for config in configs": the handler is asked and the status
\* is inserted under the name of the descriptor
ProcessItemsIter ==
    /\ call = "process_items" /\ pc = "loop"
    /\ idx < Len(configs)
    /\ LET r == Handle(handler, configs[idx + 1])
       IN  /\ results' = Record(results, r.config.name, r.res.ok)
           /\ outcomes' = Append(outcomes, [before |-> configs[idx + 1], after |-> r.config,
                                            ok |-> r.res.ok, applied |-> FALSE,
                                            from |-> store, to |-> store])
    /\ idx' = idx + 1
    /\ UNCHANGED <<call, pc, handler, configs, operations, atCall>>
    /\ UNCHANGED <<store, order, pre, history, fileVars>>

\* the loop is over: results is returned
ProcessItemsReturn ==
    /\ call = "process_items" /\ pc = "loop"
    /\ idx = Len(configs)
    /\ pc' = "returned"
    /\ UNCHANGED <<call, handler, configs, operations, idx, results, outcomes, atCall>>
    /\ UNCHANGED <<store, order, pre, history, fileVars>>

ProcessItemsAny ==
    \E h \in Handlers, cs \in ProcessInputs : ProcessItemsCall(h, cs)

NextProcess == ProcessItemsAny \/ ProcessItemsIter \/ ProcessItemsReturn

\* ------------------------------------------------------------ run_with_store
\* the (descriptor, operation) pairs of the run_with_store runs
DispatchPairs ==
    {[config |-> Config(<<"p">>, 30), op |-> InsertOp(<<"a">>, <<"x">>)],
     [config |-> Config(<<"s">>, 60), op |-> InsertOp(EmptyStr, EmptyStr)],
     [config |-> Config(<<"p">>, 0), op |-> InsertOp(<<"a">>, EmptyStr)],
     [config |-> Config(EmptyStr, 30), op |-> UpdateOp(<<"a">>, EmptyStr)],
     [config |-> Config(<<"p">>, 30), op |-> DeleteOp(<<"a">>)]}

DispatchInputs == SeqsUpTo(DispatchPairs, MaxItems)

\* run_with_store(store, handler, operations): results starts empty
RunWithStoreCall(h, items) ==
    /\ pc # "loop"
    /\ Len(history) + Len(items) <= MaxOps
    /\ call' = "run_with_store"
    /\ pc' = "loop"
    /\ handler' = h
    /\ configs' = [i \in 1..Len(items) |-> items[i].config]
    /\ operations' = [i \in 1..Len(items) |-> items[i].op]
    /\ idx' = 0
    /\ results' = EmptyResults
    /\ outcomes' = <<>>
    /\ atCall' = store
    /\ UNCHANGED <<store, order, pre, history, fileVars>>

\* one pair: the handler validates the descriptor; when it fails, Inactive is
\* recorded for the key and the operation is skipped; when it passes, the
\* operation is applied to the store and Active or Inactive recorded by
\* whether the operation succeeded
RunWithStoreIter ==
    /\ call = "run_with_store" /\ pc = "loop"
    /\ idx < Len(configs)
    /\ LET op == operations[idx + 1]
           r == Handle(handler, configs[idx + 1])
           e == Execute(op, store)
       IN  IF r.res.ok
           THEN /\ store' = e.db
                /\ order' \in NextOrders(order, store, e.db)
                /\ pre' = store
                /\ history' = Append(history, Call("execute", op, e.res))
                /\ results' = Record(results, op.key, e.res.ok)
                /\ outcomes' = Append(outcomes, [before |-> configs[idx + 1], after |-> r.config,
                                                 ok |-> TRUE, applied |-> TRUE,
                                                 from |-> store, to |-> e.db])
           ELSE /\ results' = Record(results, op.key, FALSE)
                /\ outcomes' = Append(outcomes, [before |-> configs[idx + 1], after |-> r.config,
                                                 ok |-> FALSE, applied |-> FALSE,
                                                 from |-> store, to |-> store])
                /\ UNCHANGED <<store, order, pre, history>>
    /\ idx' = idx + 1
    /\ UNCHANGED <<call, pc, handler, configs, operations, atCall, fileVars>>

\* the loop is over: results is returned
RunWithStoreReturn ==
    /\ call = "run_with_store" /\ pc = "loop"
    /\ idx = Len(configs)
    /\ pc' = "returned"
    /\ UNCHANGED <<call, handler, configs, operations, idx, results, outcomes, atCall>>
    /\ UNCHANGED <<store, order, pre, history, fileVars>>

RunWithStoreAny ==
    \E h \in Handlers, items \in DispatchInputs : RunWithStoreCall(h, items)

NextDispatch == RunWithStoreAny \/ RunWithStoreIter \/ RunWithStoreReturn

vars == <<store, order, pre, history, file, loaded, call, pc, handler, configs, operations,
          idx, results, outcomes, atCall>>

Next == NextStore \/ NextPersist \/ NextLoad \/ NextData \/ NextProcess \/ NextDispatch

Spec == Init /\ [][Next]_vars

SpecStore == Init /\ [][NextStore]_vars

SpecPersist == Init /\ [][NextPersist]_vars

SpecLoad == Init /\ [][NextLoad]_vars

SpecData == Init /\ [][NextData]_vars

SpecProcess == Init /\ [][NextProcess]_vars

SpecDispatch == Init /\ [][NextDispatch]_vars

\* ------------------------------------------------------------ store claims
NotFoundMsg(key) == <<"Key not found: ", key>>

IsExecute(kind) == last.call = "execute" /\ last.kind = kind

\* every entry but the one for k is the same in m and n
SameExcept(m, n, k) == \A x \in AllKeys \ {k} : DbRetrieve(n, x) = DbRetrieve(m, x)

\* C1: after insert(k, v), retrieve(k) returns Some(v) and retrieve of every
\* other key returns what it returned before the insert, the empty string
\* being a key and a value like any other.
C1_InsertThenRetrieve ==
    last.call = "insert" =>
        /\ DbRetrieve(store, last.key) = Some(last.value)
        /\ SameExcept(pre, store, last.key)

\* an insert of the empty key with the empty value over another value, beside
\* an entry for another key
C1_Witness ==
    /\ last.call = "insert"
    /\ last.key = EmptyStr /\ last.value = EmptyStr
    /\ EmptyStr \in DOMAIN pre /\ pre[EmptyStr] # EmptyStr
    /\ \E k \in DOMAIN pre : k # EmptyStr /\ pre[k] # EmptyStr

\* C2: Update{k, v2}.execute on a store holding k returns Ok, leaves
\* retrieve(k) = Some(v2) and every other entry as it was; on a store without
\* k it returns Err (key not found) and leaves the store as it was.  The key
\* set never grows.
C2_UpdateOnlyIfPresent ==
    IsExecute("Update") =>
        /\ DOMAIN store \subseteq DOMAIN pre
        /\ IF last.key \in DOMAIN pre
           THEN /\ last.res.ok
                /\ DbRetrieve(store, last.key) = Some(last.value)
                /\ SameExcept(pre, store, last.key)
           ELSE /\ last.res = Err(NotFoundMsg(last.key))
                /\ store = pre

\* an Update of an absent key on a store that holds another key
C2_Witness ==
    /\ IsExecute("Update")
    /\ last.key \notin DOMAIN pre
    /\ pre # EmptyMap
    /\ ~last.res.ok

\* C3: Delete{k}.execute on a store without k returns Err (key not found) and
\* leaves the entries as they were; on a store holding k it returns Ok,
\* removes the entry for k and leaves every other entry as it was.
C3_DeleteOnlyIfPresent ==
    IsExecute("Delete") =>
        IF last.key \in DOMAIN pre
        THEN /\ last.res.ok
             /\ DbRetrieve(store, last.key) = None
             /\ SameExcept(pre, store, last.key)
        ELSE /\ last.res = Err(NotFoundMsg(last.key))
             /\ store = pre

\* a Delete of a present key beside another entry, which stays
C3_Witness ==
    /\ IsExecute("Delete")
    /\ last.res.ok
    /\ last.key \in DOMAIN pre
    /\ store # EmptyMap

\* C4: Retrieve{k}.execute and retrieve(k) leave the store as it was; execute
\* returns Ok with the current value exactly when k is present and Err (key
\* not found) exactly when it is absent; retrieve returns the current value
\* or None.
C4_RetrieveIsPure ==
    /\ IsExecute("Retrieve") =>
          /\ store = pre
          /\ last.res.ok <=> last.key \in DOMAIN pre
          /\ last.res.ok => last.res.msg = <<"Retrieved: ", last.key, " = ", pre[last.key]>>
          /\ ~last.res.ok => last.res = Err(NotFoundMsg(last.key))
    /\ last.call = "retrieve" =>
          /\ store = pre
          /\ last.res = IF last.key \in DOMAIN pre THEN Some(pre[last.key]) ELSE None

\* a Retrieve that succeeded on a store of two entries
C4_Witness ==
    /\ IsExecute("Retrieve")
    /\ last.res.ok
    /\ Cardinality(DOMAIN store) = 2

\* the successful Insert / Update / Delete calls on k, by position
Mutations(k) ==
    {i \in 1..Len(history) :
        /\ history[i].key = k
        /\ history[i].kind \in {"Insert", "Update", "Delete"}
        /\ history[i].res.ok}

MaxOf(S) == CHOOSE i \in S : \A j \in S : j <= i

\* C10: the store reflects the calls made since it was created empty: k is
\* present iff the most recent successful Insert / Update / Delete on k was an
\* Insert or an Update, and then holds the value that call carried; failed
\* calls and Retrieves contribute nothing.
C10_StoreReflectsHistory ==
    \A k \in AllKeys :
        IF Mutations(k) = {}
        THEN k \notin DOMAIN store
        ELSE LET c == history[MaxOf(Mutations(k))]
             IN  IF c.kind = "Delete"
                 THEN k \notin DOMAIN store
                 ELSE k \in DOMAIN store /\ store[k] = c.value

\* Insert, Delete, then a failed Update of the same key: the key is absent
C10_Witness ==
    /\ Len(history) >= 3
    /\ history[1].kind = "Insert" /\ history[1].call = "execute"
    /\ history[2].kind = "Delete" /\ history[2].res.ok
    /\ history[3].kind = "Update" /\ ~history[3].res.ok
    /\ history[1].key = history[2].key /\ history[2].key = history[3].key
    /\ store = EmptyMap

\* ------------------------------------------------------------ persistence claims
Contains(s, c) == \E i \in 1..Len(s) : s[i] = c

EndsWith(s, c) == Len(s) > 0 /\ s[Len(s)] = c

\* the entries of m that the line format writes and reads back as they are
Representable(m) ==
    \A k \in DOMAIN m :
        /\ ~Contains(k, COLON) /\ ~Contains(k, NL)
        /\ ~Contains(m[k], NL) /\ ~EndsWith(m[k], CR)

SameRetrieve(m, n) == \A k \in AllKeys \cup DOMAIN m \cup DOMAIN n : DbRetrieve(m, k) = DbRetrieve(n, k)

\* C5 as stated: loading what save_to_file wrote gives the same retrieve
\* result as the saved store for every key.
C5_RoundTripAnyStore ==
    (loaded.done /\ loaded.ok /\ loaded.saved) => SameRetrieve(loaded.store, loaded.of)

\* C5 amended: for a store whose keys hold no ':' and no newline and whose
\* values hold no newline and do not end in a carriage return, loading what
\* save_to_file wrote gives the same retrieve result as the saved store for
\* every key.
C5_RoundTripRepresentable ==
    (loaded.done /\ loaded.ok /\ loaded.saved /\ Representable(loaded.of)) =>
        SameRetrieve(loaded.store, loaded.of)

\* a store of two entries, one with the empty key, one with a ':' in its
\* value, saved and loaded
C5_Witness ==
    /\ loaded.done /\ loaded.ok /\ loaded.saved
    /\ Representable(loaded.of)
    /\ Cardinality(DOMAIN loaded.of) = 2
    /\ EmptyStr \in DOMAIN loaded.of
    /\ \E k \in DOMAIN loaded.of : Contains(loaded.of[k], COLON)

\* ------------------------------------------------------------ handler claims
Accepted(config) == Len(config.name) > 0 /\ config.timeout # 0

\* C6: the DefaultHandler accepts a descriptor exactly when its name is not
\* empty and its timeout is not zero, and leaves the descriptor as it was.
C6_DefaultHandlerRule ==
    handler = "DefaultHandler" =>
        \A i \in 1..Len(outcomes) :
            /\ outcomes[i].ok <=> Accepted(outcomes[i].before)
            /\ outcomes[i].after = outcomes[i].before

\* the DefaultHandler was given a descriptor with no name and no timeout and
\* one with a name and no timeout, and rejected both
C6_Witness ==
    /\ handler = "DefaultHandler"
    /\ \E i \in 1..Len(outcomes) :
          outcomes[i].before = Config(EmptyStr, 0) /\ ~outcomes[i].ok
    /\ \E i \in 1..Len(outcomes) :
          outcomes[i].before = Config(<<"p">>, 0) /\ ~outcomes[i].ok

\* the positions among the first n descriptors that carry the name
Positions(name, n) == {i \in 1..n : configs[i].name = name}

StatusOf(ok) == IF ok THEN Active ELSE Inactive

\* C7: process_items takes the descriptors in input order; after n of them
\* the status of a name is Active if the handler accepted the last of the n
\* that carries the name and Inactive if it rejected it.
C7_LastOutcomeWins ==
    call = "process_items" =>
        /\ Len(outcomes) = idx
        /\ \A i \in 1..idx : outcomes[i].before = configs[i]
        /\ \A name \in DOMAIN results :
              /\ Positions(name, idx) # {}
              /\ results[name] = StatusOf(outcomes[MaxOf(Positions(name, idx))].ok)

\* a name accepted first and rejected later is returned Inactive
C7_Witness ==
    /\ call = "process_items" /\ pc = "returned"
    /\ \E i, j \in 1..Len(configs) :
          /\ i < j
          /\ configs[i].name = configs[j].name
          /\ outcomes[i].ok /\ ~outcomes[j].ok
          /\ Positions(configs[i].name, Len(configs)) = {i, j}
          /\ results[configs[i].name] = Inactive

\* C8: the mapping process_items returns has exactly the names of the
\* descriptors given as its keys, whatever the handler said of each, and every
\* status in it is Active or Inactive.
C8_FullyPopulated ==
    (call = "process_items" /\ pc = "returned") =>
        /\ DOMAIN results = {configs[i].name : i \in 1..Len(configs)}
        /\ \A name \in DOMAIN results : results[name] \in {Active, Inactive}

\* a rejected descriptor first, an accepted one of another name after it
C8_Witness ==
    /\ call = "process_items" /\ pc = "returned"
    /\ Len(configs) >= 2
    /\ ~outcomes[1].ok /\ outcomes[2].ok
    /\ configs[1].name # configs[2].name
    /\ Cardinality(DOMAIN results) = 2

MutationsBefore(k, j) == {i \in Mutations(k) : i < j}

\* call j found its key absent
FoundAbsent(c) ==
    IF c.call = "retrieve" THEN c.res = None ELSE c.res = Err(NotFoundMsg(c.key))

\* C11: calls take effect in the order made: after a successful Delete of k,
\* every Retrieve of k finds nothing and every Update of k fails with key not
\* found until k is inserted again; an Update of k after an Insert of k with
\* no Delete of k between them succeeds.
C11_EffectsInOrder ==
    \A j \in 1..Len(history) :
        LET c == history[j]
            M == MutationsBefore(c.key, j)
        IN  M # {} =>
              IF history[MaxOf(M)].kind = "Delete"
              THEN c.kind \in {"Retrieve", "Update"} => FoundAbsent(c)
              ELSE c.kind = "Update" => c.res.ok

\* Insert, Delete, then a Retrieve and an Update of the same key, both failed
C11_Witness ==
    /\ Len(history) = 4
    /\ history[1].kind = "Insert"
    /\ history[2].kind = "Delete" /\ history[2].res.ok
    /\ history[3].kind = "Retrieve" /\ history[3].call = "execute" /\ ~history[3].res.ok
    /\ history[4].kind = "Update" /\ ~history[4].res.ok
    /\ \A i \in 1..4 : history[i].key = <<"a">>

\* C12: an insert of (k, v) made right after the same insert leaves the store
\* as the first one left it, and both succeed.
C12_InsertIdempotent ==
    LET n == Len(history)
    IN  (/\ n >= 2
         /\ history[n].kind = "Insert" /\ history[n - 1].kind = "Insert"
         /\ history[n].call = history[n - 1].call
         /\ history[n].key = history[n - 1].key
         /\ history[n].value = history[n - 1].value) =>
            /\ store = pre
            /\ history[n].res.ok /\ history[n - 1].res.ok
            /\ DbRetrieve(store, history[n].key) = Some(history[n].value)

\* the same Insert executed twice over an entry that held another value
C12_Witness ==
    LET n == Len(history)
    IN  /\ n >= 3
        /\ history[n].call = "execute"
        /\ history[n].kind = "Insert" /\ history[n - 1] = history[n]
        /\ history[n - 2].kind = "Insert" /\ history[n - 2].key = history[n].key
        /\ history[n - 2].value # history[n].value
        /\ history[n].value # EmptyStr

\* ------------------------------------------------------------ loading claims
\* the texts a line of ls begins with
LinePrefixes(ls) ==
    UNION {{SubSeq(ls[i], 1, n) : n \in 0..Len(ls[i])} : i \in 1..Len(ls)}

\* line l is k, then its first ':', then a value
IsEntryLine(l, k) ==
    /\ ~Contains(k, COLON)
    /\ Len(l) > Len(k)
    /\ SubSeq(l, 1, Len(k)) = k
    /\ l[Len(k) + 1] = COLON

\* everything of l after the ':' that follows k
ValueAfter(l, k) == SubSeq(l, Len(k) + 2, Len(l))

\* C13: load_from_file takes the lines in order and splits each on its first
\* ':' only: a key is loaded iff some line is that key, a ':' and a value,
\* further ':' included in the value; it then holds the value of the last
\* such line; lines without a ':' add nothing and stop nothing.
C13_LoadSplitsOnFirstColon ==
    (loaded.done /\ loaded.ok) =>
        LET ls == Lines(loaded.contents)
        IN  \A k \in LinePrefixes(ls) \cup DOMAIN loaded.store :
                LET L == {i \in 1..Len(ls) : IsEntryLine(ls[i], k)}
                IN  IF L = {} THEN k \notin DOMAIN loaded.store
                    ELSE /\ k \in DOMAIN loaded.store
                         /\ loaded.store[k] = ValueAfter(ls[MaxOf(L)], k)

\* the file with "a:x", "b", "a:y:z" was loaded: a holds "y:z", nothing else
\* is there
C13_Witness ==
    /\ loaded.done /\ loaded.ok
    /\ loaded.contents = FileDuplicate
    /\ DOMAIN loaded.store = {<<"a">>}
    /\ loaded.store[<<"a">>] = <<"y", COLON, "z">>

\* ------------------------------------------------------------ export claims
\* the keys of the store in the order they were inserted, after n calls: an
\* Insert of a key not there puts it last, a successful Delete takes it out
RECURSIVE InsertionOrder(_)
InsertionOrder(n) ==
    IF n = 0 THEN <<>>
    ELSE LET o == InsertionOrder(n - 1)
             c == history[n]
         IN  IF c.kind = "Insert" /\ ~(\E i \in 1..Len(o) : o[i] = c.key)
             THEN Append(o, c.key)
             ELSE IF c.kind = "Delete" /\ c.res.ok
             THEN SelectSeq(o, LAMBDA x : x # c.key)
             ELSE o

\* the texts of ts one after the other
RECURSIVE Flatten(_)
Flatten(ts) == IF ts = <<>> THEN <<>> ELSE Head(ts) \o Flatten(Tail(ts))

\* one "key:value" line for each key of o, with the value m holds
LinesFor(m, o) == [i \in 1..Len(o) |-> o[i] \o <<COLON>> \o m[o[i]] \o <<NL>>]

\* C14: save_to_file writes the entries in insertion order, so that stores
\* built by the same calls are exported as the same sequence of lines.
C14_ExportInInsertionOrder ==
    last.call = "save" =>
        file.contents = Flatten(LinesFor(store, InsertionOrder(Len(history))))

C16_ProcessDataChecks ==
    \A i \in 1..Len(history) :
        history[i].call = "process_data" =>
            LET c == history[i]
            IN  /\ c.after = c.config
                /\ IF c.input.len > 1048576
                   THEN ~c.res.ok /\ c.res.msg[1] = "Input exceeds max size: "
                   ELSE IF c.config.timeout_ms = 0
                   THEN ~c.res.ok /\ c.res.msg = <<"Invalid timeout">>
                   ELSE c.res = Ok(c.input)

\* an input of exactly 1024 * 1024 bytes was accepted, and one of a byte more
\* with a timeout of 0 was refused for its size
C16_Witness ==
    /\ \E i \in 1..Len(history) :
          /\ history[i].call = "process_data"
          /\ history[i].input.len = 1048576 /\ history[i].res.ok
    /\ \E i \in 1..Len(history) :
          /\ history[i].call = "process_data"
          /\ history[i].input.len = 1048577 /\ history[i].config.timeout_ms = 0
          /\ history[i].res.msg[1] = "Input exceeds max size: "

====
